---- MODULE Spec2Model ----
(***************************************************************************)
(* Episodic sampling and two-tier caching of music_trees/data.py:          *)
(* MetaDataset (transform cache, deterministic episode cache, episode      *)
(* sampler, materializer) run by a pool of worker processes that share     *)
(* the on-disk cache directories.                                          *)
(***************************************************************************)
EXTENDS Integers, Sequences, FiniteSets, TLC

(***************************************************************************)
(* Bounds of the model.                                                    *)
(***************************************************************************)
NumWorkers == 2
MaxEpisodes == 1
MaxClass == 3
MaxShot == 2
MaxQuery == 2
MaxTransforms == 2

Workers == 1..NumWorkers
DatasetIds == {"dsA", "dsB"}

(***************************************************************************)
(* Values standing for Python's None / an unbound local.                   *)
(***************************************************************************)
None == [none |-> TRUE]
Unbound == [unbound |-> TRUE]

(***************************************************************************)
(* External metadata: ASSETS_DIR / name / 'partition.json'.                *)
(* Class names are listed in ascending (Python str) order in ClassOrder.   *)
(* The partition "empty" is a key of the file with no classes under it,    *)
(* the partition "sparse" has a class with no records.                     *)
(***************************************************************************)
ClassOrder == <<"brass", "strings", "winds">>
Rank(c) == CHOOSE i \in 1..Len(ClassOrder) : ClassOrder[i] = c

Rec(u, l) == [uuid |-> u, label |-> l]

PartitionJson(name) ==
    [ empty |-> [cl \in {} |-> << >>],
      val   |-> [ strings |-> <<Rec("u2", "strings")>>,
                  brass   |-> <<Rec("u1", "brass")>> ],
      test  |-> [ strings |-> <<Rec("u5", "strings")>>,
                  brass   |-> <<Rec("u3", "brass"), Rec("u4", "brass")>> ],
      sparse |-> [ brass |-> <<Rec("u10", "brass")>>,
                   winds |-> << >> ],
      train |-> [ brass   |-> <<Rec("u6", "brass")>>,
                  strings |-> <<Rec("u7", "strings")>>,
                  winds   |-> <<Rec("u8", "winds"), Rec("u9", "winds")>> ] ]

(***************************************************************************)
(* sorted(): ascending sequence of a set of class names.                   *)
(***************************************************************************)
RECURSIVE sorted(_)
sorted(S) ==
    IF S = {} THEN <<>>
    ELSE LET least == CHOOSE c \in S : \A o \in S : Rank(c) <= Rank(o)
         IN <<least>> \o sorted(S \ {least})

Range(s) == { s[i] : i \in 1..Len(s) }

Min(a, b) == IF a <= b THEN a ELSE b

(***************************************************************************)
(* Paths: a pathlib.Path is the sequence of its components.                *)
(***************************************************************************)
CACHE_DIR == <<"cache">>
Parent(path) == SubSeq(path, 1, Len(path) - 1)

\* MetaDataset._load_files: the partition's class -> records map, keys sorted
load_files(name, partition) == PartitionJson(name)[partition]

\* cache_name = repr(self.audio_tfm); a transform is identified by its repr
cache_name_of(audio_tfm) == audio_tfm

\* self.cache_root = mt.CACHE_DIR / name / cache_name
cache_root_shared(name, cache_name) == CACHE_DIR \o <<name>>
cache_root_of(name, cache_name) == CACHE_DIR \o <<name, cache_name>>

\* self.epi_cache_root = self.cache_root.parent / f'{cache_name}-deterministic-episodes-...'
epi_cache_root_no_shot(cache_root, cache_name, partition, n_shot, n_class, n_query) ==
    Parent(cache_root) \o
      << cache_name \o "-deterministic-episodes-" \o partition
         \o "-c" \o ToString(n_class) \o "-q" \o ToString(n_query) >>
epi_cache_root_of(cache_root, cache_name, partition, n_shot, n_class, n_query) ==
    Parent(cache_root) \o
      << cache_name \o "-deterministic-episodes-" \o partition
         \o "-k" \o ToString(n_shot) \o "-c" \o ToString(n_class)
         \o "-q" \o ToString(n_query) >>

(***************************************************************************)
(* MetaDataset.__init__: the fields of the object built from the           *)
(* constructor arguments c (the pure part; cache_dataset() is run by the   *)
(* workers, see StartCache).                                               *)
(***************************************************************************)
MetaDataset(c) ==
    LET files == load_files(c.name, c.partition)
        classes == sorted(DOMAIN files)
        cache_name == cache_name_of(c.audio_tfm)
        cache_root == cache_root_of(c.name, cache_name)
    IN [ files |-> files,
         classes |-> classes,
         n_episodes |-> c.n_episodes,
         n_class |-> Min(Len(classes), c.n_class),
         n_shot |-> c.n_shot,
         n_query |-> c.n_query,
         audio_tfm |-> c.audio_tfm,
         cache_root |-> cache_root,
         deterministic |-> c.deterministic,
         epi_cache_root |-> epi_cache_root_of(cache_root, cache_name, c.partition,
                                              c.n_shot, c.n_class, c.n_query) ]

\* every record of the partition, as cache_dataset walks them
AllRecords(self) ==
    UNION { Range(self.files[cl]) : cl \in DOMAIN self.files }

(***************************************************************************)
(* Episode sampler: generate_episode and its helpers, as sets of the       *)
(* outcomes the random source can produce.                                 *)
(***************************************************************************)
\* the subset left in descending order
sample_descending(classes, k) ==
    { [i \in 1..k |-> sorted(S)[k + 1 - i]] :
        S \in { T \in SUBSET Range(classes) : Cardinality(T) = k } }

\* every class taken, whatever k
sample_sorted_all(classes, k) == { sorted(Range(classes)) }

\* random.sample(self.classes, k) then subset.sort()
sample_sorted(classes, k) ==
    { sorted(S) : S \in { T \in SUBSET Range(classes) : Cardinality(T) = k } }

\* Dicts are objects: a record value that carries index_object stands for
\* the very dict held in self.files, any other record value for a dict of
\* its own (a copy, a pickle.load result, a JSON value).
is_index_object(e) == "index_object" \in DOMAIN e

\* random.choice(self.files[name]) handed on without dict(): the index's dict
get_example_for_class_shared(files, name) ==
    { [index_object |-> TRUE] @@ r : r \in Range(files[name]) }

\* _get_example_for_class: dict(random.choice(self.files[name])), a copy
get_example_for_class(files, name) == Range(files[name])

\* what a dict reads as now: the index's own dict is read in self.files
current(files, e) ==
    IF is_index_object(e)
      THEN [index_object |-> TRUE] @@
           (CHOOSE r \in UNION { Range(files[cl]) : cl \in DOMAIN files } : r.uuid = e.uuid)
      ELSE e

\* transform_entry's entry['audio'] = signal, seen from self.files: the
\* assignment lands in the index when entry is the index's own dict
files_with_audio(all_files, d, e) ==
    IF is_index_object(e)
      THEN [all_files EXCEPT ![d] =
              [cl \in DOMAIN all_files[d] |->
                 [i \in 1..Len(all_files[d][cl]) |->
                    IF all_files[d][cl][i].uuid = e.uuid
                      THEN [audio |-> [signal_of |-> e.uuid]] @@ all_files[d][cl][i]
                      ELSE all_files[d][cl][i]]]]
      ELSE all_files

\* records drawn without replacement: no record twice in one block
RECURSIVE draw_examples_without_replacement(_, _, _)
draw_examples_without_replacement(files, name, num_examples) ==
    IF num_examples <= 0 THEN { <<>> }
    ELSE { Append(rs, item) :
             <<rs, item>> \in
                { pair \in draw_examples_without_replacement(files, name, num_examples - 1)
                              \X get_example_for_class(files, name) :
                    pair[2] \notin Range(pair[1]) } }

\* for meta_idx in range(num_examples): records.append(item)
RECURSIVE draw_examples(_, _, _)
draw_examples(files, name, num_examples) ==
    IF num_examples <= 0 THEN { <<>> }
    ELSE { Append(rs, item) :
             rs \in draw_examples(files, name, num_examples - 1),
             item \in get_example_for_class(files, name) }

\* for label_idx, name in enumerate(subset)
RECURSIVE class_loop(_, _, _, _)
class_loop(files, subset, label_idx, num_examples) ==
    IF label_idx > Len(subset) THEN { <<>> }
    ELSE { a \o b :
             a \in draw_examples(files, subset[label_idx], num_examples),
             b \in class_loop(files, subset, label_idx + 1, num_examples) }

\* the query block put before the support block
metatype_loop_query_first(files, subset, n_shot, n_query) ==
    { q \o s : s \in class_loop(files, subset, 1, n_shot),
               q \in class_loop(files, subset, 1, n_query) }

\* metatypes = {'support': n_shot, 'query': n_query}, in that order
metatype_loop(files, subset, n_shot, n_query) ==
    { s \o q : s \in class_loop(files, subset, 1, n_shot),
               q \in class_loop(files, subset, 1, n_query) }

generate_episode_shot_only(self) ==
    UNION { { [ n_class |-> Len(subset), n_shot |-> self.n_shot,
                n_query |-> self.n_query, classlist |-> subset,
                records |-> records ] :
              records \in metatype_loop(self.files, subset, self.n_shot, self.n_shot) } :
            subset \in sample_sorted(self.classes, self.n_class) }
generate_episode(self) ==
    UNION { { [ n_class |-> Len(subset), n_shot |-> self.n_shot,
                n_query |-> self.n_query, classlist |-> subset,
                records |-> records ] :
              records \in metatype_loop(self.files, subset, self.n_shot, self.n_query) } :
            subset \in sample_sorted(self.classes, self.n_class) }

(***************************************************************************)
(* Transform tier: transform_entry and the (de)serialisation of entries.   *)
(***************************************************************************)
\* AudioSignal(path_to_input_file=...).to_mono(): the decoded source audio
AudioSignal(entry) == [signal_of |-> entry.uuid]

\* entry['audio'] = signal (assignment into the dict passed in)
with_audio(entry) == [audio |-> AudioSignal(entry)] @@ entry

\* self.audio_tfm(entry): the transform named by its repr replaces the payload
audio_tfm_apply(audio_tfm, entry) ==
    [audio |-> [tfm |-> audio_tfm, input |-> entry.audio]] @@ entry

transform_entry(self, entry) ==
    IF self.audio_tfm # "None"
      THEN audio_tfm_apply(self.audio_tfm, with_audio(entry))
      ELSE with_audio(entry)

\* cached_entry['audio_path'] = str(Path(get_path(cached_entry)).with_suffix('.wav'))
with_audio_path(cached_entry) ==
    [audio_path |-> cached_entry.uuid \o ".wav"] @@ cached_entry

\* entry_path = self.cache_root / entry['uuid']
entry_path_of(self, entry) == self.cache_root \o <<entry.uuid>>

\* self.epi_cache_root / str(index)
episode_path_of(self, index) == self.epi_cache_root \o <<ToString(index)>>

(***************************************************************************)
(* Files.  open(path, 'w'/'wb') creates the file, or truncates it, empty;  *)
(* it holds its value once the dump has been written out.  Two fields are  *)
(* bookkeeping, not content: by (the dataset object that last opened the   *)
(* file for writing) and writes (how often it was opened for writing).     *)
(***************************************************************************)
pickle_dump(obj) == [format |-> "pickle", data |-> obj]
pickle_load(file) == file.data
\* mt.utils.data.save_entry(item, path, format='json') / load_entry
save_entry(item) == [format |-> "json", data |-> item]
load_entry(file) == file.data

EmptyFn == [x \in {} |-> 0]
Get(f, key, default) == IF key \in DOMAIN f THEN f[key] ELSE default
Put(f, key, v) == (key :> v) @@ f

\* Path.exists()
exists(files, path) == path \in DOMAIN files

Writes(files, path) == IF exists(files, path) THEN files[path].writes ELSE 0

open_for_write(files, path, key) ==
    Put(files, path, [ complete |-> FALSE, format |-> "none", data |-> None,
                       by |-> key, writes |-> Writes(files, path) + 1 ])

write_and_close(files, path, bytes) ==
    [ files EXCEPT ![path] = [ @ EXCEPT !.complete = TRUE,
                                        !.format = bytes.format,
                                        !.data = bytes.data ] ]

\* the identity of an episode: its classes and which records were chosen
Uuids(records) == [i \in 1..Len(records) |-> records[i].uuid]
Identity(episode) ==
    [classlist |-> episode.classlist, uuids |-> Uuids(episode.records)]

VARIABLES
    cfg,               \* constructor arguments of each MetaDataset
    broken,            \* uuids whose source audio cannot be read
    stage,             \* construction of each dataset: new, caching, ready, failed
    warm,              \* records whose cache_dataset call has returned, per dataset
    self_files,        \* self.files of each dataset: class -> the record dicts it holds
    fs,                \* the shared cache directories: path -> file
    pc,                \* each worker's position
    kind,              \* what the worker runs: "cache" (cache_dataset), "getitem", "generate"
    self,              \* the dataset the worker's call is on
    index,             \* __getitem__'s index
    hit,               \* __getitem__: the outcome of its cache test
    episode,           \* __getitem__'s local episode
    k,                 \* _process_episode: position in episode['records']
    out,               \* _process_episode: the processed records so far
    entry,             \* cache_if_needed's argument
    cached_entry,      \* cache_if_needed's local
    ret,               \* the value the call returned
    err,               \* the exception the call raised
    returned_episodes, \* history: identities returned by __getitem__, per dataset and index
    returned_entries,  \* history: values returned by cache_if_needed, per entry path
    episode_sets,      \* history: episodes _episode_cache_set has stored, per path
    tfm_calls,         \* history: transform_entry invocations, per entry path
    batch,             \* the items the DataLoader hands to collate_fn
    collated           \* what episode_collate(batch) returned or raised

vars == << cfg, broken, stage, warm, self_files, fs, pc, kind, self, index, hit, episode, k, out,
           entry, cached_entry, ret, err, returned_episodes, returned_entries,
           episode_sets, tfm_calls, batch, collated >>

locals == << kind, self, index, hit, episode, k, out, entry, cached_entry, ret, err >>
history == << returned_episodes, returned_entries, episode_sets, tfm_calls >>

\* the constructor arguments that name a dataset's cache roots
RootKey(c) ==
    [ name |-> c.name, audio_tfm |-> c.audio_tfm, partition |-> c.partition,
      n_shot |-> c.n_shot, n_class |-> c.n_class, n_query |-> c.n_query ]

\* the object as it is now: self.files holds dicts that can be assigned into
Obj(d) == [MetaDataset(cfg[d]) EXCEPT !.files = self_files[d]]

(***************************************************************************)
(* Construction: __init__ loads the partition, derives the cache roots and *)
(* runs cache_dataset(), which walks the classes in key order and hands    *)
(* the records of one class at a time to the worker pool (process_map).    *)
(***************************************************************************)
InFlight(d) == { q \in Workers : pc[q] # "idle" /\ kind[q] = "cache" /\ self[q] = d }

\* classes (by position) that still have a record cache_dataset has not got back
Pending(d) ==
    LET o == Obj(d)
    IN { i \in 1..Len(o.classes) :
           \E r \in Range(o.files[o.classes[i]]) : r.uuid \notin warm[d] }

\* MetaDataset.__init__, up to the call of cache_dataset().  The cache root
\* is a directory, there since the mkdir of the line before: with clear_cache
\* os.remove(self.cache_root) is called on it and raises (IsADirectoryError,
\* PermissionError), which ends __init__; no file is touched.
Construct(d) ==
    /\ stage[d] \in {"new", "failed"}
    /\ InFlight(d) = {}
    /\ self_files' = [self_files EXCEPT ![d] = MetaDataset(cfg[d]).files]
    /\ IF cfg[d].clear_cache
         THEN /\ stage' = [stage EXCEPT ![d] = "failed"]
              /\ warm' = warm
         ELSE /\ stage' = [stage EXCEPT ![d] = "caching"]
              /\ warm' = [warm EXCEPT ![d] = {}]
    /\ UNCHANGED << cfg, batch, collated, broken, fs, pc, locals, history >>

\* process_map(self.cache_if_needed, records): one record goes to a worker
StartCache(p, d, u) ==
    /\ pc[p] = "idle"
    /\ stage[d] = "caching"
    /\ u \notin warm[d]
    /\ Pending(d) # {}
    /\ \A q \in InFlight(d) : entry[q].uuid # u
    /\ LET o == Obj(d)
           i == CHOOSE i \in Pending(d) : \A j \in Pending(d) : i <= j
       IN \E rec \in Range(o.files[o.classes[i]]) :
            /\ rec.uuid = u
            /\ entry' = [entry EXCEPT ![p] = rec]
    /\ pc' = [pc EXCEPT ![p] = "cin_exists1"]
    /\ kind' = [kind EXCEPT ![p] = "cache"]
    /\ self' = [self EXCEPT ![p] = d]
    /\ cached_entry' = [cached_entry EXCEPT ![p] = Unbound]
    /\ UNCHANGED << cfg, batch, collated, broken, self_files, stage, warm, fs, index, hit, episode, k, out, ret, err, history >>

\* MetaDataset.__init__, after cache_dataset() has returned
Constructed(d) ==
    /\ stage[d] = "caching"
    /\ Pending(d) = {}
    /\ InFlight(d) = {}
    /\ stage' = [stage EXCEPT ![d] = "ready"]
    /\ UNCHANGED << cfg, batch, collated, broken, self_files, warm, fs, pc, locals, history >>

(***************************************************************************)
(* cache_if_needed(entry), one step per access to the shared directory.    *)
(***************************************************************************)
\* transform_entry raises: the record's source audio cannot be loaded
transform_raises(e) == e.uuid \in broken

Raise(p, exception) ==
    /\ pc' = [pc EXCEPT ![p] = "error"]
    /\ err' = [err EXCEPT ![p] = exception]

\* if entry_path.exists():
CinExists1(p) ==
    /\ pc[p] = "cin_exists1"
    /\ pc' = [pc EXCEPT ![p] =
                IF exists(fs, entry_path_of(Obj(self[p]), entry[p]))
                  THEN "cin_load" ELSE "cin_exists2"]
    /\ UNCHANGED << cfg, batch, collated, broken, self_files, stage, warm, fs, locals, history >>

\* with open(entry_path, 'rb') as f: cached_entry = pickle.load(f)
CinLoad(p) ==
    /\ pc[p] = "cin_load"
    /\ LET path == entry_path_of(Obj(self[p]), entry[p])
       IN IF fs[path].complete
            THEN /\ cached_entry' = [cached_entry EXCEPT ![p] = pickle_load(fs[path])]
                 /\ pc' = [pc EXCEPT ![p] = "cin_exists2"]
                 /\ err' = err
            ELSE /\ Raise(p, "EOFError")
                 /\ cached_entry' = cached_entry
    /\ UNCHANGED << cfg, batch, collated, broken, self_files, stage, warm, fs, kind, self, index, hit, episode, k, out, entry,
                    ret, history >>

\* the second test left out: the entry is computed and written again
CinExists2_recompute(p) ==
    /\ pc[p] = "cin_exists2"
    /\ LET o == Obj(self[p])
           path == entry_path_of(o, entry[p])
       IN IF (~exists(fs, path) \/ cached_entry[p] # Unbound) /\ transform_raises(entry[p])
            THEN /\ Raise(p, "TransformError")
                 /\ UNCHANGED << self_files, cached_entry, entry, tfm_calls >>
          ELSE IF ~exists(fs, path) \/ cached_entry[p] # Unbound
            THEN /\ cached_entry' = [cached_entry EXCEPT ![p] = transform_entry(o, entry[p])]
                 /\ entry' = [entry EXCEPT ![p] = with_audio(entry[p])]
                 /\ self_files' = files_with_audio(self_files, self[p], entry[p])
                 /\ tfm_calls' = Put(tfm_calls, path, Get(tfm_calls, path, 0) + 1)
                 /\ pc' = [pc EXCEPT ![p] = "cin_open"]
                 /\ err' = err
            ELSE /\ pc' = [pc EXCEPT ![p] = "cin_finish"]
                 /\ UNCHANGED << self_files, cached_entry, entry, tfm_calls, err >>
    /\ UNCHANGED << cfg, batch, collated, broken, stage, warm, fs, kind, self, index, hit, episode, k, out, ret,
                    returned_episodes, returned_entries, episode_sets >>

\* the pre-warm going on past a record whose transform raises
CinExists2_tolerant(p) ==
    /\ pc[p] = "cin_exists2"
    /\ LET o == Obj(self[p])
           path == entry_path_of(o, entry[p])
       IN IF ~exists(fs, path) /\ transform_raises(entry[p])
            THEN /\ IF kind[p] = "cache"
                      THEN /\ warm' = [warm EXCEPT ![self[p]] = @ \cup {entry[p].uuid}]
                           /\ pc' = [pc EXCEPT ![p] = "done"]
                           /\ err' = err
                      ELSE /\ Raise(p, "TransformError")
                           /\ warm' = warm
                 /\ UNCHANGED << self_files, cached_entry, entry, tfm_calls >>
          ELSE IF ~exists(fs, path)
            THEN /\ cached_entry' = [cached_entry EXCEPT ![p] = transform_entry(o, entry[p])]
                 /\ entry' = [entry EXCEPT ![p] = with_audio(entry[p])]
                 /\ self_files' = files_with_audio(self_files, self[p], entry[p])
                 /\ tfm_calls' = Put(tfm_calls, path, Get(tfm_calls, path, 0) + 1)
                 /\ pc' = [pc EXCEPT ![p] = "cin_open"]
                 /\ UNCHANGED << err, warm >>
            ELSE /\ pc' = [pc EXCEPT ![p] = "cin_finish"]
                 /\ UNCHANGED << self_files, cached_entry, entry, tfm_calls, err, warm >>
    /\ UNCHANGED << cfg, batch, collated, broken, stage, fs, kind, self, index, hit, episode, k, out, ret,
                    returned_episodes, returned_entries, episode_sets >>

\* a failing record left out of the episode
CinExists2_skip(p) ==
    /\ pc[p] = "cin_exists2"
    /\ LET o == Obj(self[p])
           path == entry_path_of(o, entry[p])
       IN IF ~exists(fs, path) /\ transform_raises(entry[p])
            THEN /\ IF kind[p] = "getitem"
                      THEN /\ k' = [k EXCEPT ![p] = @ + 1]
                           /\ pc' = [pc EXCEPT ![p] = "gi_process"]
                           /\ err' = err
                      ELSE /\ Raise(p, "TransformError")
                           /\ k' = k
                 /\ UNCHANGED << self_files, cached_entry, entry, tfm_calls >>
          ELSE IF ~exists(fs, path)
            THEN /\ cached_entry' = [cached_entry EXCEPT ![p] = transform_entry(o, entry[p])]
                 /\ entry' = [entry EXCEPT ![p] = with_audio(entry[p])]
                 /\ self_files' = files_with_audio(self_files, self[p], entry[p])
                 /\ tfm_calls' = Put(tfm_calls, path, Get(tfm_calls, path, 0) + 1)
                 /\ pc' = [pc EXCEPT ![p] = "cin_open"]
                 /\ UNCHANGED << err, k >>
            ELSE /\ pc' = [pc EXCEPT ![p] = "cin_finish"]
                 /\ UNCHANGED << self_files, cached_entry, entry, tfm_calls, err, k >>
    /\ UNCHANGED << cfg, batch, collated, broken, stage, warm, fs, kind, self, index, hit, episode, out, ret,
                    returned_episodes, returned_entries, episode_sets >>

\* if not entry_path.exists(): cached_entry = self.transform_entry(entry);
\* AudioSignal(path_to_input_file=...) raises on a source it cannot read
CinExists2(p) ==
    /\ pc[p] = "cin_exists2"
    /\ LET o == Obj(self[p])
           path == entry_path_of(o, entry[p])
       IN IF ~exists(fs, path) /\ transform_raises(entry[p])
            THEN /\ Raise(p, "TransformError")
                 /\ UNCHANGED << self_files, cached_entry, entry, tfm_calls >>
          ELSE IF ~exists(fs, path)
            THEN /\ cached_entry' = [cached_entry EXCEPT ![p] = transform_entry(o, entry[p])]
                 /\ entry' = [entry EXCEPT ![p] = with_audio(entry[p])]
                 /\ self_files' = files_with_audio(self_files, self[p], entry[p])
                 /\ tfm_calls' = Put(tfm_calls, path, Get(tfm_calls, path, 0) + 1)
                 /\ pc' = [pc EXCEPT ![p] = "cin_open"]
                 /\ err' = err
            ELSE /\ pc' = [pc EXCEPT ![p] = "cin_finish"]
                 /\ UNCHANGED << self_files, cached_entry, entry, tfm_calls, err >>
    /\ UNCHANGED << cfg, batch, collated, broken, stage, warm, fs, kind, self, index, hit, episode, k, out, ret,
                    returned_episodes, returned_entries, episode_sets >>

\* with open(entry_path, 'wb') as f:
CinOpen(p) ==
    /\ pc[p] = "cin_open"
    /\ fs' = open_for_write(fs, entry_path_of(Obj(self[p]), entry[p]), RootKey(cfg[self[p]]))
    /\ pc' = [pc EXCEPT ![p] = "cin_dump"]
    /\ UNCHANGED << cfg, batch, collated, broken, self_files, stage, warm, locals, history >>

\* pickle.dump(cached_entry, f), and the file is closed
CinDump(p) ==
    /\ pc[p] = "cin_dump"
    /\ fs' = write_and_close(fs, entry_path_of(Obj(self[p]), entry[p]),
                             pickle_dump(cached_entry[p]))
    /\ pc' = [pc EXCEPT ![p] = "cin_finish"]
    /\ UNCHANGED << cfg, batch, collated, broken, self_files, stage, warm, locals, history >>

\* cached_entry['audio_path'] = ...; return cached_entry
CinFinish(p) ==
    /\ pc[p] = "cin_finish"
    /\ IF cached_entry[p] = Unbound
         THEN /\ Raise(p, "UnboundLocalError")
              /\ UNCHANGED << warm, k, out, ret, returned_entries >>
         ELSE LET result == with_audio_path(cached_entry[p])
                  path == entry_path_of(Obj(self[p]), entry[p])
              IN /\ returned_entries' =
                       Put(returned_entries, path,
                           Get(returned_entries, path, {}) \cup {result})
                 /\ err' = err
                 /\ IF kind[p] = "cache"
                      THEN /\ ret' = [ret EXCEPT ![p] = result]
                           /\ warm' = [warm EXCEPT ![self[p]] = @ \cup {entry[p].uuid}]
                           /\ pc' = [pc EXCEPT ![p] = "done"]
                           /\ UNCHANGED << k, out >>
                      ELSE /\ out' = [out EXCEPT ![p] = Append(@, result)]
                           /\ k' = [k EXCEPT ![p] = @ + 1]
                           /\ pc' = [pc EXCEPT ![p] = "gi_process"]
                           /\ UNCHANGED << ret, warm >>
    /\ UNCHANGED << cfg, batch, collated, broken, self_files, stage, fs, kind, self, index, hit, episode, entry, cached_entry,
                    returned_episodes, episode_sets, tfm_calls >>

(***************************************************************************)
(* Deterministic episode cache.                                            *)
(***************************************************************************)
\* _check_episode_cached
check_episode_cached_never(files, o, i) == FALSE
check_episode_cached(files, o, i) == exists(files, episode_path_of(o, i))

\* _episode_cache_get
episode_cache_get(files, o, i) == load_entry(files[episode_path_of(o, i)])

(***************************************************************************)
(* __getitem__(index), one step per access to the shared directory.        *)
(***************************************************************************)
StartGetItem(p, d, i) ==
    /\ pc[p] = "idle"
    /\ stage[d] = "ready"
    /\ i \in 0..(Obj(d).n_episodes - 1)
    /\ pc' = [pc EXCEPT ![p] = "gi_check"]
    /\ kind' = [kind EXCEPT ![p] = "getitem"]
    /\ self' = [self EXCEPT ![p] = d]
    /\ index' = [index EXCEPT ![p] = i]
    /\ UNCHANGED << cfg, batch, collated, broken, self_files, stage, warm, fs, hit, episode, k, out, entry, cached_entry,
                    ret, err, history >>

\* the cache consulted whatever self.deterministic says
GetItemCheck_always(p) ==
    /\ pc[p] = "gi_check"
    /\ LET o == Obj(self[p])
           cached == check_episode_cached(fs, o, index[p])
       IN /\ hit' = [hit EXCEPT ![p] = cached]
          /\ pc' = [pc EXCEPT ![p] = IF cached THEN "gi_get" ELSE "gi_generate"]
    /\ UNCHANGED << cfg, batch, collated, broken, self_files, stage, warm, fs, kind, self, index, episode, k, out, entry,
                    cached_entry, ret, err, history >>

\* if self.deterministic and self._check_episode_cached(index):
GetItemCheck(p) ==
    /\ pc[p] = "gi_check"
    /\ LET o == Obj(self[p])
           cached == o.deterministic /\ check_episode_cached(fs, o, index[p])
       IN /\ hit' = [hit EXCEPT ![p] = cached]
          /\ pc' = [pc EXCEPT ![p] = IF cached THEN "gi_get" ELSE "gi_generate"]
    /\ UNCHANGED << cfg, batch, collated, broken, self_files, stage, warm, fs, kind, self, index, episode, k, out, entry,
                    cached_entry, ret, err, history >>

\* episode = self._episode_cache_get(index)
EpisodeCacheGet(p) ==
    /\ pc[p] = "gi_get"
    /\ LET o == Obj(self[p])
       IN IF fs[episode_path_of(o, index[p])].complete
            THEN /\ episode' = [episode EXCEPT ![p] = episode_cache_get(fs, o, index[p])]
                 /\ pc' = [pc EXCEPT ![p] = "gi_process"]
                 /\ err' = err
            ELSE /\ Raise(p, "JSONDecodeError")
                 /\ episode' = episode
    /\ k' = [k EXCEPT ![p] = 1]
    /\ UNCHANGED << cfg, batch, collated, broken, self_files, stage, warm, fs, kind, self, index, hit, out, entry, cached_entry,
                    ret, history >>

\* random.choice on a class without records raises IndexError
sampling_fails(o) ==
    \E subset \in sample_sorted(o.classes, o.n_class) :
        metatype_loop(o.files, subset, o.n_shot, o.n_query) = {}

\* a sampling that fails leaves the episode it had begun, without records,
\* to be stored and returned
GenerateEpisode_store_partial(p) ==
    /\ pc[p] = "gi_generate"
    /\ LET o == Obj(self[p])
           partial == { [ n_class |-> Len(subset), n_shot |-> o.n_shot,
                          n_query |-> o.n_query, classlist |-> subset,
                          records |-> <<>> ] :
                        subset \in { s \in sample_sorted(o.classes, o.n_class) :
                                       metatype_loop(o.files, s, o.n_shot, o.n_query) = {} } }
       IN \E e \in generate_episode(o) \cup partial :
            /\ episode' = [episode EXCEPT ![p] = e]
            /\ pc' = [pc EXCEPT ![p] =
                        IF o.deterministic THEN "gi_set_open" ELSE "gi_process"]
    /\ k' = [k EXCEPT ![p] = 1]
    /\ UNCHANGED << cfg, batch, collated, broken, self_files, stage, warm, fs, kind, self, index,
                    hit, out, entry, cached_entry, ret, err, history >>

\* episode = self.generate_episode()
GenerateEpisode(p) ==
    /\ pc[p] = "gi_generate"
    /\ LET o == Obj(self[p])
       IN \E e \in generate_episode(o)
                     \cup (IF sampling_fails(o) THEN {None} ELSE {}) :
            IF e = None
              THEN /\ Raise(p, "IndexError")
                   /\ episode' = episode
              ELSE /\ episode' = [episode EXCEPT ![p] = e]
                   /\ pc' = [pc EXCEPT ![p] =
                               IF o.deterministic THEN "gi_set_open" ELSE "gi_process"]
                   /\ err' = err
    /\ k' = [k EXCEPT ![p] = 1]
    /\ UNCHANGED << cfg, batch, collated, broken, self_files, stage, warm, fs, kind, self, index, hit, out, entry, cached_entry,
                    ret, history >>

\* self._episode_cache_set(index, dict(episode)): save_entry opens the file
EpisodeCacheSetOpen(p) ==
    /\ pc[p] = "gi_set_open"
    /\ fs' = open_for_write(fs, episode_path_of(Obj(self[p]), index[p]), RootKey(cfg[self[p]]))
    /\ pc' = [pc EXCEPT ![p] = "gi_set_dump"]
    /\ UNCHANGED << cfg, batch, collated, broken, self_files, stage, warm, locals, history >>

\* self._episode_cache_set(index, dict(episode)): the value is written out
EpisodeCacheSetDump(p) ==
    /\ pc[p] = "gi_set_dump"
    /\ LET path == episode_path_of(Obj(self[p]), index[p])
       IN /\ fs' = write_and_close(fs, path, save_entry(episode[p]))
          /\ episode_sets' = Put(episode_sets, path,
                                 Get(episode_sets, path, {}) \cup {episode[p]})
    /\ pc' = [pc EXCEPT ![p] = "gi_process"]
    /\ UNCHANGED << cfg, batch, collated, broken, self_files, stage, warm, locals, returned_episodes, returned_entries,
                    tfm_calls >>

\* _process_episode: [self.process_entry(itm) for itm in episode['records']]
ProcessEntry(p) ==
    /\ pc[p] = "gi_process"
    /\ LET o == Obj(self[p])
           records == episode[p].records
       IN IF k[p] > Len(records)
            THEN /\ pc' = [pc EXCEPT ![p] = "gi_return"]
                 /\ UNCHANGED << k, out, entry, cached_entry >>
            ELSE IF o.audio_tfm = "None"
              THEN /\ out' = [out EXCEPT ![p] = Append(@, current(o.files, records[k[p]]))]
                   /\ k' = [k EXCEPT ![p] = @ + 1]
                   /\ UNCHANGED << pc, entry, cached_entry >>
              ELSE /\ entry' = [entry EXCEPT ![p] = current(o.files, records[k[p]])]
                   /\ cached_entry' = [cached_entry EXCEPT ![p] = Unbound]
                   /\ pc' = [pc EXCEPT ![p] = "cin_exists1"]
                   /\ UNCHANGED << k, out >>
    /\ UNCHANGED << cfg, batch, collated, broken, self_files, stage, warm, fs, kind, self, index, hit, episode, ret, err, history >>

\* episode['records'] = [...]; (epi_tfm is None); return episode
GetItemReturn(p) ==
    /\ pc[p] = "gi_return"
    /\ LET result == [episode[p] EXCEPT !.records = out[p]]
           key == << self[p], index[p] >>
       IN /\ ret' = [ret EXCEPT ![p] = result]
          /\ returned_episodes' =
                IF Obj(self[p]).deterministic
                  THEN Put(returned_episodes, key,
                           Get(returned_episodes, key, {}) \cup {Identity(result)})
                  ELSE returned_episodes
    /\ pc' = [pc EXCEPT ![p] = "done"]
    /\ UNCHANGED << cfg, batch, collated, broken, self_files, stage, warm, fs, kind, self, index, hit, episode, k, out, entry,
                    cached_entry, err, returned_entries, episode_sets, tfm_calls >>

\* a direct call of generate_episode()
CallGenerateEpisode(p, d) ==
    /\ pc[p] = "idle"
    /\ stage[d] = "ready"
    /\ \E e \in generate_episode(Obj(d)) :
          ret' = [ret EXCEPT ![p] = e]
    /\ kind' = [kind EXCEPT ![p] = "generate"]
    /\ self' = [self EXCEPT ![p] = d]
    /\ pc' = [pc EXCEPT ![p] = "done"]
    /\ UNCHANGED << cfg, batch, collated, broken, self_files, stage, warm, fs, index, hit, episode, k, out, entry,
                    cached_entry, err, history >>

\* the call is over: its value has been handed back, or its exception has
\* propagated (out of process_map, it fails the construction)
Finish(p) ==
    /\ pc[p] \in {"done", "error"}
    /\ stage' = IF pc[p] = "error" /\ kind[p] = "cache" /\ stage[self[p]] = "caching"
                  THEN [stage EXCEPT ![self[p]] = "failed"]
                  ELSE stage
    /\ pc' = [pc EXCEPT ![p] = "idle"]
    /\ kind' = [kind EXCEPT ![p] = "none"]
    /\ self' = [self EXCEPT ![p] = "none"]
    /\ index' = [index EXCEPT ![p] = 0]
    /\ hit' = [hit EXCEPT ![p] = FALSE]
    /\ episode' = [episode EXCEPT ![p] = None]
    /\ k' = [k EXCEPT ![p] = 0]
    /\ out' = [out EXCEPT ![p] = <<>>]
    /\ entry' = [entry EXCEPT ![p] = None]
    /\ cached_entry' = [cached_entry EXCEPT ![p] = Unbound]
    /\ ret' = [ret EXCEPT ![p] = None]
    /\ err' = [err EXCEPT ![p] = "none"]
    /\ UNCHANGED << cfg, batch, collated, broken, self_files, warm, fs, history >>

(***************************************************************************)
(* The environment of the calls: a worker process is killed, a source      *)
(* audio file becomes unreadable, a transform-cache entry is deleted from  *)
(* the cache directory between calls.                                      *)
(***************************************************************************)
\* the worker process dies inside __getitem__, where it stands: its locals
\* are gone, the files it has opened stay as they are
Kill(p) ==
    /\ pc[p] \notin {"idle", "done", "error"}
    /\ kind[p] = "getitem"
    \* bound: a transform whose result is lost with the worker is counted too
    /\ pc[p] = "cin_open"
          => Get(tfm_calls, entry_path_of(Obj(self[p]), entry[p]), 0) < MaxTransforms
    /\ pc' = [pc EXCEPT ![p] = "idle"]
    /\ kind' = [kind EXCEPT ![p] = "none"]
    /\ self' = [self EXCEPT ![p] = "none"]
    /\ index' = [index EXCEPT ![p] = 0]
    /\ hit' = [hit EXCEPT ![p] = FALSE]
    /\ episode' = [episode EXCEPT ![p] = None]
    /\ k' = [k EXCEPT ![p] = 0]
    /\ out' = [out EXCEPT ![p] = <<>>]
    /\ entry' = [entry EXCEPT ![p] = None]
    /\ cached_entry' = [cached_entry EXCEPT ![p] = Unbound]
    /\ ret' = [ret EXCEPT ![p] = None]
    /\ err' = [err EXCEPT ![p] = "none"]
    /\ UNCHANGED << cfg, batch, collated, broken, self_files, stage, warm, fs, history >>

\* Path(get_path(entry)).with_suffix('.wav') stops being loadable
SourceUnreadable(u) ==
    /\ u \notin broken
    /\ \E d \in DatasetIds : \E r \in AllRecords(Obj(d)) : r.uuid = u
    /\ broken' = broken \cup {u}
    /\ UNCHANGED << cfg, batch, collated, self_files, stage, warm, fs, pc, locals, history >>

\* entry_path.exists() turns False again: the entry was deleted by hand
EntryRemoved(path) ==
    /\ exists(fs, path)
    /\ \E d \in DatasetIds : \E r \in AllRecords(Obj(d)) : entry_path_of(Obj(d), r) = path
    /\ Get(tfm_calls, path, 0) < MaxTransforms
    /\ fs' = [q \in DOMAIN fs \ {path} |-> fs[q]]
    /\ UNCHANGED << cfg, batch, collated, broken, self_files, stage, warm, pc, locals, history >>

(***************************************************************************)
(* Constructor arguments.                                                  *)
(***************************************************************************)
LogMelSpec128 == "LogMelSpec(hop_length=128, win_length=512)"
LogMelSpec256 == "LogMelSpec(hop_length=256, win_length=512)"
AllUuids == { "u1", "u2", "u3", "u4", "u5", "u6", "u7", "u8", "u9", "u10" }

BaseConfig ==
    [ name |-> "katunog", partition |-> "val", n_episodes |-> MaxEpisodes,
      n_class |-> 1, n_shot |-> 1, n_query |-> 1,
      audio_tfm |-> LogMelSpec128, clear_cache |-> FALSE, deterministic |-> TRUE ]

\* BaseConfig, and datasets that differ from it in one constructor argument:
\* the keys of the cache roots, the partition read, clear_cache
SeqConfigs ==
    { BaseConfig,
      [BaseConfig EXCEPT !.name = "mdb"],
      [BaseConfig EXCEPT !.partition = "test"],
      [BaseConfig EXCEPT !.partition = "empty"],
      [BaseConfig EXCEPT !.partition = "sparse"],
      [BaseConfig EXCEPT !.n_class = 3],
      [BaseConfig EXCEPT !.n_shot = 2],
      [BaseConfig EXCEPT !.n_query = 2],
      [BaseConfig EXCEPT !.audio_tfm = LogMelSpec256],
      [BaseConfig EXCEPT !.audio_tfm = "None"],
      [BaseConfig EXCEPT !.clear_cache = TRUE] }

GenConfigs ==
    { [ name |-> "katunog", partition |-> pt, n_episodes |-> MaxEpisodes,
        n_class |-> nc, n_shot |-> ns, n_query |-> nq,
        audio_tfm |-> LogMelSpec128, clear_cache |-> FALSE, deterministic |-> dt ] :
      pt \in {"test", "val", "train"},
      nc \in 0..MaxClass, ns \in 0..MaxShot, nq \in 0..MaxQuery,
      dt \in BOOLEAN }

\* the transform cache as cache_dataset() leaves it
WarmFs(c) ==
    LET paths == UNION { { entry_path_of(MetaDataset(c[d]), r) :
                             r \in AllRecords(MetaDataset(c[d])) } : d \in DOMAIN c }
        owner(path) == CHOOSE d \in DOMAIN c :
                          \E r \in AllRecords(MetaDataset(c[d])) :
                              entry_path_of(MetaDataset(c[d]), r) = path
        rec(path) == CHOOSE r \in AllRecords(MetaDataset(c[owner(path)])) :
                          r.uuid = path[Len(path)]
    IN [ path \in paths |->
           [ complete |-> TRUE, format |-> "pickle",
             data |-> transform_entry(MetaDataset(c[owner(path)]), rec(path)),
             by |-> RootKey(c[owner(path)]), writes |-> 1 ] ]

InitWorkers ==
    /\ pc = [p \in Workers |-> "idle"]
    /\ kind = [p \in Workers |-> "none"]
    /\ self = [p \in Workers |-> "none"]
    /\ index = [p \in Workers |-> 0]
    /\ hit = [p \in Workers |-> FALSE]
    /\ episode = [p \in Workers |-> None]
    /\ k = [p \in Workers |-> 0]
    /\ out = [p \in Workers |-> <<>>]
    /\ entry = [p \in Workers |-> None]
    /\ cached_entry = [p \in Workers |-> Unbound]
    /\ ret = [p \in Workers |-> None]
    /\ err = [p \in Workers |-> "none"]
    /\ returned_episodes = EmptyFn
    /\ returned_entries = EmptyFn
    /\ episode_sets = EmptyFn
    /\ tfm_calls = EmptyFn

\* no batch has been collated
InitLoader ==
    /\ batch = <<>>
    /\ collated = Unbound

(***************************************************************************)
(* Spec: the worker pool, every interleaving.  Two dataset objects over    *)
(* the same partition and transform, one deterministic, one not.           *)
(***************************************************************************)
Init ==
    /\ cfg = [ dsA |-> BaseConfig,
               dsB |-> [BaseConfig EXCEPT !.deterministic = FALSE] ]
    /\ broken \in { {}, {"u2"} }
    /\ self_files = [d \in DatasetIds |-> MetaDataset(cfg[d]).files]
    /\ stage = [d \in DatasetIds |-> "new"]
    /\ warm = [d \in DatasetIds |-> {}]
    /\ fs = EmptyFn
    /\ InitWorkers
    /\ InitLoader

Step(p) ==
    \/ CinExists1(p) \/ CinLoad(p) \/ CinExists2(p) \/ CinOpen(p) \/ CinDump(p)
    \/ CinFinish(p)
    \/ GetItemCheck(p) \/ EpisodeCacheGet(p) \/ GenerateEpisode(p)
    \/ EpisodeCacheSetOpen(p) \/ EpisodeCacheSetDump(p)
    \/ ProcessEntry(p) \/ GetItemReturn(p)
    \/ Finish(p)

Next ==
    \/ \E d \in DatasetIds : Construct(d) \/ Constructed(d)
    \/ \E p \in Workers, d \in DatasetIds :
          \/ \E u \in AllUuids : StartCache(p, d, u)
          \/ \E i \in 0..(MaxEpisodes - 1) : StartGetItem(p, d, i)
    \/ \E p \in Workers : Step(p)

Spec == Init /\ [][Next]_vars

(***************************************************************************)
(* SpecSeq: the same operations, one call at a time (a single process, or  *)
(* one process after another over the same cache root).  The second        *)
(* dataset ranges over the constructor arguments.                          *)
(***************************************************************************)
Quiet == \A q \in Workers : pc[q] = "idle"

InitSeq ==
    /\ cfg \in { [ dsA |-> BaseConfig, dsB |-> c ] : c \in SeqConfigs }
    /\ broken = {}
    /\ self_files = [d \in DatasetIds |-> MetaDataset(cfg[d]).files]
    /\ stage = [d \in DatasetIds |-> "new"]
    /\ warm = [d \in DatasetIds |-> {}]
    /\ fs = EmptyFn
    /\ InitWorkers
    /\ InitLoader

NextSeq ==
    \/ \E d \in DatasetIds : Quiet /\ (Construct(d) \/ Constructed(d))
    \/ \E p \in Workers, d \in DatasetIds :
          \/ \E u \in AllUuids : Quiet /\ StartCache(p, d, u)
          \/ \E i \in 0..(MaxEpisodes - 1) : Quiet /\ StartGetItem(p, d, i)
    \/ \E p \in Workers : Step(p)

SpecSeq == InitSeq /\ [][NextSeq]_vars

(***************************************************************************)
(* SpecGen: generate_episode() called on constructed datasets, over the    *)
(* constructor arguments.  The method reads the object's fields only, so   *)
(* the calls are taken one at a time.                                      *)
(***************************************************************************)
InitGen ==
    /\ cfg \in { [ d \in DatasetIds |-> c ] : c \in GenConfigs }
    /\ broken = {}
    /\ self_files = [d \in DatasetIds |-> MetaDataset(cfg[d]).files]
    /\ stage = [d \in DatasetIds |-> "ready"]
    /\ warm = [d \in DatasetIds |-> { r.uuid : r \in AllRecords(Obj(d)) }]
    /\ fs = WarmFs(cfg)
    /\ InitWorkers
    /\ InitLoader

NextGen ==
    \/ \E p \in Workers, d \in DatasetIds : Quiet /\ CallGenerateEpisode(p, d)
    \/ \E p \in Workers : Finish(p)

SpecGen == InitGen /\ [][NextGen]_vars

(***************************************************************************)
(* SpecFault: calls one at a time, in an environment that kills workers,   *)
(* loses source audio and deletes transform-cache entries between calls.   *)
(* One dataset object (dsA) is constructed and used.                       *)
(***************************************************************************)
EntryPaths ==
    UNION { { entry_path_of(Obj(d), r) : r \in AllRecords(Obj(d)) } : d \in DatasetIds }

InitFault ==
    /\ cfg = [ dsA |-> BaseConfig,
               dsB |-> [BaseConfig EXCEPT !.deterministic = FALSE] ]
    /\ broken = {}
    /\ self_files = [d \in DatasetIds |-> MetaDataset(cfg[d]).files]
    /\ stage = [d \in DatasetIds |-> "new"]
    /\ warm = [d \in DatasetIds |-> {}]
    /\ fs = EmptyFn
    /\ InitWorkers
    /\ InitLoader

NextFault ==
    \/ Quiet /\ (Construct("dsA") \/ Constructed("dsA"))
    \/ \E p \in Workers :
          \/ \E u \in AllUuids : Quiet /\ StartCache(p, "dsA", u)
          \/ \E i \in 0..(MaxEpisodes - 1) : Quiet /\ StartGetItem(p, "dsA", i)
    \/ \E p \in Workers : Step(p)
    \/ \E p \in Workers : Kill(p)
    \/ \E u \in AllUuids : SourceUnreadable(u)
    \/ \E path \in EntryPaths : Quiet /\ EntryRemoved(path)

SpecFault == InitFault /\ [][NextFault]_vars

(***************************************************************************)
(* episode_collate(batch): the DataLoader's collate_fn.  A field value is  *)
(* an ndarray, a torch.Tensor, a list of numbers or a string; what matters *)
(* of it is its type, its shape and whether its elements are numbers.      *)
(***************************************************************************)
MaxBatch == 2

ndarray(shape) == [type |-> "ndarray", shape |-> shape, numeric |-> TRUE, value |-> "zeros"]
Tensor(shape) == [type |-> "Tensor", shape |-> shape, numeric |-> TRUE, value |-> "zeros"]
FieldValues ==
    { ndarray(<<2>>), ndarray(<<3>>), Tensor(<<2>>), Tensor(<<3>>),
      [type |-> "list", shape |-> <<2>>, numeric |-> TRUE, value |-> "[0, 1]"],
      [type |-> "str", shape |-> <<>>, numeric |-> FALSE, value |-> "a"],
      [type |-> "str", shape |-> <<>>, numeric |-> FALSE, value |-> "b"] }

\* dict keys in insertion order
KeyOrder == <<"audio", "classlist">>
Items ==
    UNION { [ { KeyOrder[i] : i \in 1..n } -> FieldValues ] : n \in 1..Len(KeyOrder) }
Batches == UNION { [ 1..n -> Items ] : n \in 0..MaxBatch }

raises(exception) == [raises |-> exception]
raised(r) == "raises" \in DOMAIN r

\* [item[key] for item in batch]
column(b, key) ==
    IF \E i \in 1..Len(b) : key \notin DOMAIN b[i]
      THEN raises("KeyError")
      ELSE [items |-> [i \in 1..Len(b) |-> b[i][key]]]

\* np.stack(arrays): every element through asanyarray, one shape for all;
\* torch.from_numpy takes arrays of numbers only
np_stack_from_numpy(values) ==
    IF \E i, j \in 1..Len(values) : values[i].shape # values[j].shape
      THEN raises("ValueError")
    ELSE IF \E i \in 1..Len(values) : ~values[i].numeric
      THEN raises("TypeError")
      ELSE [type |-> "Tensor", shape |-> <<Len(values)>> \o values[1].shape,
            items |-> values]

\* torch.stack(tensors): tensors only, of one shape
torch_stack(values) ==
    IF \E i \in 1..Len(values) : values[i].type # "Tensor"
      THEN raises("TypeError")
    ELSE IF \E i, j \in 1..Len(values) : values[i].shape # values[j].shape
      THEN raises("RuntimeError")
      ELSE [type |-> "Tensor", shape |-> <<Len(values)>> \o values[1].shape,
            items |-> values]

\* the body of the loop over keys: the branch is chosen by batch[0][key]
collate_key(b, key) ==
    LET exmpl == b[1][key]
        col == column(b, key)
    IN IF raised(col) THEN col
       ELSE IF exmpl.type = "ndarray" THEN np_stack_from_numpy(col.items)
       ELSE IF exmpl.type = "Tensor" THEN torch_stack(col.items)
       ELSE [type |-> "list", items |-> col.items]

episode_collate(b) ==
    IF Len(b) = 0
      THEN raises("IndexError")
      ELSE LET keys == DOMAIN b[1]
               failing == { i \in 1..Len(KeyOrder) :
                              KeyOrder[i] \in keys /\ raised(collate_key(b, KeyOrder[i])) }
           IN IF failing # {}
                THEN collate_key(b, KeyOrder[CHOOSE i \in failing : \A j \in failing : i <= j])
                ELSE [output |-> [key \in keys |-> collate_key(b, key)]]

\* the DataLoader calls collate_fn on the batch it has gathered
Collate ==
    /\ collated = Unbound
    /\ collated' = episode_collate(batch)
    /\ UNCHANGED << cfg, broken, self_files, stage, warm, fs, pc, locals, history, batch >>

InitCollate ==
    /\ cfg = [ dsA |-> BaseConfig,
               dsB |-> [BaseConfig EXCEPT !.deterministic = FALSE] ]
    /\ broken = {}
    /\ self_files = [d \in DatasetIds |-> MetaDataset(cfg[d]).files]
    /\ stage = [d \in DatasetIds |-> "new"]
    /\ warm = [d \in DatasetIds |-> {}]
    /\ fs = EmptyFn
    /\ InitWorkers
    /\ batch \in Batches
    /\ collated = Unbound

NextCollate == Collate

SpecCollate == InitCollate /\ [][NextCollate]_vars

(***************************************************************************)
(* Claims.                                                                 *)
(***************************************************************************)
EpisodePathOfKey(key) == episode_path_of(Obj(key[1]), key[2])

\* C1: under SpecSeq (calls one after another, by any process over the same
\* cache root), all __getitem__(i) calls of a deterministic dataset that
\* return, return the same classlist and the same record uuids in the same
\* order, for every index i.
C1_SequentialDeterminism ==
    \A key1 \in DOMAIN returned_episodes, key2 \in DOMAIN returned_episodes :
        (key1[2] = key2[2] /\ EpisodePathOfKey(key1) = EpisodePathOfKey(key2))
            => Cardinality(returned_episodes[key1] \cup returned_episodes[key2]) <= 1

\* a call has replayed index i from the episode cache and returned it
C1_Witness ==
    \E p \in Workers :
        /\ pc[p] = "done" /\ kind[p] = "getitem" /\ hit[p]
        /\ Len(ret[p].records) > 0
        /\ returned_episodes[<< self[p], index[p] >>] = {Identity(ret[p])}

\* C2: under Spec (every interleaving), all __getitem__(i) calls of a
\* deterministic dataset return the same classlist and record uuids, also
\* when two calls run while no entry for i exists yet, and the entry on disk
\* is that same episode.
C2_ConcurrentDeterminism ==
    \A key \in DOMAIN returned_episodes :
        LET path == EpisodePathOfKey(key)
        IN /\ Cardinality(returned_episodes[key]) <= 1
           /\ \A id \in returned_episodes[key] :
                 (exists(fs, path) /\ fs[path].complete)
                    => Identity(load_entry(fs[path])) = id

\* C3: under Spec, concurrent cache_if_needed calls on a record whose entry
\* is missing all complete without error, return equal values, and leave on
\* disk the output of the transform.
C3_TransformRaceBenign ==
    /\ \A p \in Workers : err[p] \notin {"UnboundLocalError", "EOFError"}
    /\ \A path \in DOMAIN returned_entries : Cardinality(returned_entries[path]) <= 1
    /\ \A d \in DatasetIds : \A r \in AllRecords(Obj(d)) :
          LET path == entry_path_of(Obj(d), r)
          IN (exists(fs, path) /\ fs[path].complete)
                => pickle_load(fs[path]) = transform_entry(Obj(d), r)

\* C4: under Spec, a process that has seen an entry file exist (it is about
\* to load it) reads a complete value, in the transform cache and in the
\* episode cache.
C4_ReadersSeeCompleteFiles ==
    \A p \in Workers :
        /\ pc[p] = "cin_load" => fs[entry_path_of(Obj(self[p]), entry[p])].complete
        /\ pc[p] = "gi_get" => fs[episode_path_of(Obj(self[p]), index[p])].complete

\* C5: under SpecSeq, the cache_if_needed calls on one record under one cache
\* root return value-equal results, and transform_entry runs at most once
\* for that entry.
C5_CacheIdempotent ==
    /\ \A path \in DOMAIN returned_entries : Cardinality(returned_entries[path]) <= 1
    /\ \A path \in DOMAIN tfm_calls : tfm_calls[path] <= 1

\* a later call (from __getitem__) has returned the entry cache_dataset computed
C5_Witness ==
    \E p \in Workers :
        /\ kind[p] = "getitem" /\ Obj(self[p]).audio_tfm # "None"
        /\ Len(out[p]) >= 1
        /\ LET path == entry_path_of(Obj(self[p]), out[p][1])
           IN /\ tfm_calls[path] = 1
              /\ returned_entries[path] = {out[p][1]}

\* C6: every episode generate_episode produces has
\* len(records) = n_class * (n_shot + n_query) and len(classlist) = n_class,
\* n_class being the episode's own field.
C6_Cardinality ==
    \A p \in Workers :
        (pc[p] = "done" /\ kind[p] = "generate")
            => /\ Len(ret[p].records)
                    = ret[p].n_class * (ret[p].n_shot + ret[p].n_query)
               /\ Len(ret[p].classlist) = ret[p].n_class

\* an episode of several classes with different support and query counts
C6_Witness ==
    \E p \in Workers :
        /\ pc[p] = "done" /\ kind[p] = "generate"
        /\ ret[p].n_class >= 2 /\ ret[p].n_shot >= 1 /\ ret[p].n_query >= 1
        /\ ret[p].n_shot # ret[p].n_query

\* C7: under Spec, _episode_cache_get(i) returns the episode of every earlier
\* _episode_cache_set(i, e), and once set, the entry stays there.
C7_GetAfterSet ==
    /\ \A path \in DOMAIN episode_sets : exists(fs, path)
    /\ \A p \in Workers :
          pc[p] = "gi_get"
            => LET path == episode_path_of(Obj(self[p]), index[p])
               IN \A e \in Get(episode_sets, path, {}) :
                     fs[path].complete /\ load_entry(fs[path]) = e

\* C8: under Spec, each index of a deterministic dataset is written to the
\* episode cache at most once.
C8_EpisodeWrittenOnce ==
    \A d \in DatasetIds : \A i \in 0..(Obj(d).n_episodes - 1) :
        Writes(fs, episode_path_of(Obj(d), i)) <= 1

\* C9: datasets whose transform fingerprints differ have distinct transform
\* cache roots; a cache_if_needed call loads, and overwrites, only entries
\* written under its own fingerprint, and holds its own transform's output.
C9_FingerprintIsolation ==
    /\ \A d1 \in DatasetIds, d2 \in DatasetIds :
          cfg[d1].audio_tfm # cfg[d2].audio_tfm
             => Obj(d1).cache_root # Obj(d2).cache_root
    /\ \A p \in Workers :
          LET o == Obj(self[p])
          IN /\ (pc[p] \in {"cin_load", "cin_open"} /\ exists(fs, entry_path_of(o, entry[p])))
                  => fs[entry_path_of(o, entry[p])].by.audio_tfm = o.audio_tfm
             /\ (pc[p] \in {"cin_exists2", "cin_open", "cin_dump", "cin_finish"}
                   /\ cached_entry[p] # Unbound)
                  => cached_entry[p]
                       = transform_entry(o, Rec(entry[p].uuid, entry[p].label))

\* a call loads its entry while the other fingerprint's cache, under the same
\* dataset name, holds an entry for the same record uuid
C9_Witness ==
    \E p \in Workers, d2 \in DatasetIds :
        /\ pc[p] = "cin_load"
        /\ cfg[d2].audio_tfm # cfg[self[p]].audio_tfm
        /\ cfg[d2].name = cfg[self[p]].name
        /\ exists(fs, Obj(d2).cache_root \o << entry[p].uuid >>)

\* C10: deterministic datasets that differ in dataset name, transform
\* fingerprint, partition, n_shot, n_class or n_query have distinct episode
\* cache roots, and __getitem__ replays only episodes written under its own
\* values of these.
C10_EpisodeRootIsolation ==
    /\ \A d1 \in DatasetIds, d2 \in DatasetIds :
          RootKey(cfg[d1]) # RootKey(cfg[d2])
             => Obj(d1).epi_cache_root # Obj(d2).epi_cache_root
    /\ \A p \in Workers :
          pc[p] = "gi_get"
            => fs[episode_path_of(Obj(self[p]), index[p])].by = RootKey(cfg[self[p]])

\* a call replays index i while a dataset with other constructor arguments
\* has its own entry for index i
C10_Witness ==
    \E p \in Workers, d2 \in DatasetIds :
        /\ pc[p] = "gi_get"
        /\ RootKey(cfg[d2]) # RootKey(cfg[self[p]])
        /\ exists(fs, episode_path_of(Obj(d2), index[p]))

\* C11: under SpecFault, when transform_entry raises inside __getitem__ the
\* call ends in that error: no __getitem__ returns an episode with fewer than
\* n_class * (n_shot + n_query) records, and the failing record has no
\* transform-cache entry.
C11_TransformErrorPropagates ==
    \A p \in Workers :
        /\ (pc[p] = "done" /\ kind[p] = "getitem")
              => Len(ret[p].records)
                    = ret[p].n_class * (ret[p].n_shot + ret[p].n_query)
        /\ err[p] = "TransformError"
              => /\ pc[p] = "error"
                 /\ ~exists(fs, entry_path_of(Obj(self[p]), entry[p]))

\* the transform has raised for a record of an episode inside __getitem__
C11_Witness ==
    \E p \in Workers :
        /\ pc[p] = "error" /\ kind[p] = "getitem" /\ err[p] = "TransformError"
        /\ entry[p] \in Range(episode[p].records)

\* the number of classes partition.json lists under a dataset's partition
AvailableClasses(d) == Cardinality(DOMAIN PartitionJson(cfg[d].name)[cfg[d].partition])

\* C12: the dataset's n_class is the smaller of the partition's class count
\* and the requested n_class, and every episode generate_episode produces has
\* exactly that many classes.
C12_ClampedClassCount ==
    \A p \in Workers :
        (pc[p] = "done" /\ kind[p] = "generate")
            => LET avail == AvailableClasses(self[p])
                   clamped == IF avail < cfg[self[p]].n_class
                                THEN avail ELSE cfg[self[p]].n_class
               IN /\ Obj(self[p]).n_class = clamped
                  /\ ret[p].n_class = clamped
                  /\ Len(ret[p].classlist) = clamped

\* an episode of a dataset that asked for more classes than the partition has
C12_Witness ==
    \E p \in Workers :
        /\ pc[p] = "done" /\ kind[p] = "generate"
        /\ cfg[self[p]].n_class > AvailableClasses(self[p])
        /\ ret[p].n_class = AvailableClasses(self[p])
        /\ Len(ret[p].records) > 0

\* the episode-cache files of the datasets, with their content
EpisodeFiles(files) ==
    LET paths == { episode_path_of(Obj(d), i) :
                     d \in DatasetIds, i \in 0..(MaxEpisodes - 1) } \cap DOMAIN files
    IN [path \in paths |-> files[path]]

\* C13: under Spec, a __getitem__ call on a dataset built with
\* deterministic=False never tests true for, reads or writes an episode-cache
\* entry: it carries an episode of the sampler, and none of its steps changes
\* the episode-cache files.
C13_NonDeterministicFrame ==
    /\ [](\A p \in Workers :
             (kind[p] = "getitem" /\ ~cfg[self[p]].deterministic)
                => /\ pc[p] \notin {"gi_get", "gi_set_open", "gi_set_dump"}
                   /\ ~hit[p]
                   /\ episode[p] # None => episode[p] \in generate_episode(Obj(self[p])))
    /\ [][\A p \in Workers :
             (kind[p] = "getitem" /\ ~cfg[self[p]].deterministic
                 /\ << pc[p], k[p], out[p] >>' # << pc[p], k[p], out[p] >>)
                => EpisodeFiles(fs') = EpisodeFiles(fs)]_vars

\* a call on the deterministic=False dataset has returned while the episode
\* cache (of the deterministic dataset over the same arguments) holds its index
C13_Witness ==
    \E p \in Workers :
        /\ pc[p] = "done" /\ kind[p] = "getitem"
        /\ ~cfg[self[p]].deterministic
        /\ exists(fs, episode_path_of(Obj(self[p]), index[p]))
        /\ Len(ret[p].records) > 0

\* C14: under SpecSeq, the construction of a dataset whose partition has no
\* classes never succeeds, and no __getitem__ of such a dataset returns an
\* episode.
C14_EmptyPartitionRejected ==
    \A d \in DatasetIds :
        AvailableClasses(d) = 0
            => /\ stage[d] # "ready"
               /\ \A p \in Workers :
                     ~(self[p] = d /\ kind[p] = "getitem" /\ pc[p] = "done")

\* C15: under SpecFault (no two calls overlap), a worker killed inside a call
\* costs only that call: no later call fails on a cache file the killed
\* worker left behind, in the transform cache or in the episode cache.
C15_KillDiscardsOnlySample ==
    \A p \in Workers : err[p] \notin {"EOFError", "JSONDecodeError", "UnboundLocalError"}

\* C16: under Spec, no transform-cache entry is opened for writing more than
\* once: an entry that exists is not written again by a later or concurrent
\* cache_if_needed call.
C16_EntryWrittenOnce ==
    \A path \in EntryPaths : Writes(fs, path) <= 1

\* C17: in every episode of generate_episode, records is metatype-major then
\* class-major: counting from 0, records[c*n_shot + j] (j < n_shot) is a
\* record of class classlist[c], and records[n_class*n_shot + c*n_query + j]
\* (j < n_query) is a record of class classlist[c].
C17_RecordOrder ==
    \A p \in Workers :
        (pc[p] = "done" /\ kind[p] = "generate")
            => LET e == ret[p]
                   files == Obj(self[p]).files
               IN \A c \in 0..(e.n_class - 1) :
                    /\ \A j \in 0..(e.n_shot - 1) :
                          e.records[c * e.n_shot + j + 1]
                              \in Range(files[e.classlist[c + 1]])
                    /\ \A j \in 0..(e.n_query - 1) :
                          e.records[e.n_class * e.n_shot + c * e.n_query + j + 1]
                              \in Range(files[e.classlist[c + 1]])

\* an episode of two or more classes whose support and query blocks differ
\* in size
C17_Witness ==
    \E p \in Workers :
        /\ pc[p] = "done" /\ kind[p] = "generate"
        /\ ret[p].n_class >= 2 /\ ret[p].n_shot >= 2 /\ ret[p].n_query >= 1
        /\ ret[p].n_shot # ret[p].n_query
        /\ Len(ret[p].records) = ret[p].n_class * (ret[p].n_shot + ret[p].n_query)

\* the positions of records (from..to) that hold a record of class cl
SlotsOfClass(e, files, cl, from, to) ==
    { i \in from..to : e.records[i] \in Range(files[cl]) }

\* C18: records are drawn with replacement: sampling on a partition whose
\* classes all have a record never fails, and every episode holds, for each
\* class of its classlist, exactly n_shot support records and n_query query
\* records taken from that class's list, however few records the class has.
C18_WithReplacement ==
    /\ \A d \in DatasetIds :
          /\ ~sampling_fails(Obj(d))
          /\ generate_episode(Obj(d)) # {}
    /\ \A p \in Workers :
          (pc[p] = "done" /\ kind[p] = "generate")
            => LET e == ret[p]
                   files == Obj(self[p]).files
                   n_support == e.n_class * e.n_shot
               IN /\ Len(e.records) = n_support + e.n_class * e.n_query
                  /\ \A cl \in Range(e.classlist) :
                        /\ Cardinality(SlotsOfClass(e, files, cl, 1, n_support)) = e.n_shot
                        /\ Cardinality(SlotsOfClass(e, files, cl, n_support + 1,
                                                    Len(e.records))) = e.n_query

\* an episode with a class that has fewer records than n_shot, one of them
\* drawn twice
C18_Witness ==
    \E p \in Workers :
        /\ pc[p] = "done" /\ kind[p] = "generate"
        /\ \E cl \in Range(ret[p].classlist) :
              /\ Len(Obj(self[p]).files[cl]) < ret[p].n_shot
              /\ \E i, j \in 1..(ret[p].n_class * ret[p].n_shot) :
                    /\ i # j
                    /\ ret[p].records[i] = ret[p].records[j]
                    /\ ret[p].records[i] \in Range(Obj(self[p]).files[cl])

\* C19: the classlist of every episode of generate_episode has n_class
\* entries (the dataset's n_class), all of them classes of the partition, in
\* strictly ascending order, hence pairwise distinct.
C19_ClasslistSortedDistinct ==
    \A p \in Workers :
        (pc[p] = "done" /\ kind[p] = "generate")
            => LET cl == ret[p].classlist
               IN /\ Len(cl) = Obj(self[p]).n_class
                  /\ Range(cl) \subseteq DOMAIN PartitionJson(cfg[self[p]].name)[cfg[self[p]].partition]
                  /\ \A i \in 1..Len(cl), j \in 1..Len(cl) :
                        i < j => Rank(cl[i]) < Rank(cl[j])

\* an episode of two classes out of a partition of three
C19_Witness ==
    \E p \in Workers :
        /\ pc[p] = "done" /\ kind[p] = "generate"
        /\ Len(ret[p].classlist) = 2
        /\ AvailableClasses(self[p]) = 3

\* C20: under Spec, once the construction of a dataset has completed every
\* record of its partition has a transform-cache entry and none of them is a
\* record the transform fails for, and no __getitem__ call computes a
\* transform.
C20_PrewarmComplete ==
    /\ \A d \in DatasetIds :
          stage[d] = "ready"
            => \A r \in AllRecords(Obj(d)) :
                  /\ exists(fs, entry_path_of(Obj(d), r))
                  /\ ~transform_raises(r)
    /\ \A p \in Workers :
          kind[p] = "getitem"
            => /\ pc[p] \notin {"cin_open", "cin_dump"}
               /\ err[p] # "TransformError"

\* a __getitem__ call has got a record of its episode out of the pre-warmed
\* cache
C20_Witness ==
    \E p \in Workers :
        /\ kind[p] = "getitem" /\ pc[p] = "gi_process"
        /\ stage[self[p]] = "ready"
        /\ Len(out[p]) >= 1
        /\ Get(tfm_calls, entry_path_of(Obj(self[p]), out[p][1]), 0) >= 1

\* C21: the Partition Index is read-only after construction: whatever
\* __getitem__ calls run (also those that find a transform-cache entry gone
\* and compute it again), self.files holds the records as _load_files read
\* them, and a record still waiting in the episode being processed carries no
\* payload (audio, audio_path) attached to an earlier occurrence of it, in
\* this episode or a previous one.
C21_IndexReadOnly ==
    /\ \A d \in DatasetIds :
          self_files[d] = load_files(cfg[d].name, cfg[d].partition)
    /\ \A p \in Workers :
          kind[p] = "getitem" /\ pc[p] \in {"gi_process", "cin_exists1", "cin_load",
                                             "cin_exists2", "cin_open", "cin_dump",
                                             "cin_finish", "gi_return"}
            => \A j \in 1..Len(episode[p].records) :
                 j > k[p] =>
                   LET e == current(self_files[self[p]], episode[p].records[j])
                   IN "audio" \notin DOMAIN e /\ "audio_path" \notin DOMAIN e

\* __getitem__ has just run transform_entry on the first occurrence of a
\* record that occurs a second time in the same episode
C21_Witness ==
    \E p \in Workers :
        /\ kind[p] = "getitem"
        /\ pc[p] = "cin_open"
        /\ k[p] = 1
        /\ "audio" \in DOMAIN entry[p]
        /\ Len(episode[p].records) >= 2
        /\ episode[p].records[2].uuid = entry[p].uuid

\* a field's values are homogeneous numeric containers: all ndarrays, or all
\* Tensors, of one shape
Homogeneous(values) ==
    /\ \E ty \in {"ndarray", "Tensor"} : \A i \in 1..Len(values) : values[i].type = ty
    /\ \A i, j \in 1..Len(values) : values[i].shape = values[j].shape

\* C22: for a batch (not empty) of episodes that have the same fields,
\* episode_collate returns a mapping with exactly those fields; a field whose
\* values across the batch are homogeneous numeric containers is stacked with
\* a leading dimension of len(batch), and every other field, also one that is
\* numeric in some episodes and not in others, is the list of the
\* per-episode values in batch order.
C22_CollateContract ==
    ( /\ collated # Unbound
      /\ Len(batch) > 0
      /\ \A i \in 1..Len(batch) : DOMAIN batch[i] = DOMAIN batch[1] )
    => /\ "output" \in DOMAIN collated
       /\ DOMAIN collated.output = DOMAIN batch[1]
       /\ \A key \in DOMAIN batch[1] :
            LET values == [i \in 1..Len(batch) |-> batch[i][key]]
                field == collated.output[key]
            IN /\ field.items = values
               /\ IF Homogeneous(values)
                    THEN field.type = "Tensor" /\ field.shape[1] = Len(batch)
                    ELSE field.type = "list"

\* the entries under a dataset's transform-cache root
EntriesUnder(d) == { path \in DOMAIN fs : Parent(path) = Obj(d).cache_root }

\* C23: constructing a MetaDataset with clear_cache=True clears the
\* transform-cache root: the construction does not fail, and once it is over
\* the root holds one complete entry per record of the partition and nothing
\* else (what was there before is gone, what is there was computed by it).
C23_ClearCacheConstructs ==
    \A d \in DatasetIds :
        cfg[d].clear_cache =>
          /\ stage[d] # "failed"
          /\ stage[d] = "ready" =>
               /\ EntriesUnder(d) =
                    { entry_path_of(Obj(d), r) : r \in AllRecords(Obj(d)) }
               /\ \A path \in EntriesUnder(d) : fs[path].complete

\* the numbers formatted into the name of a dataset's episode-cache root:
\* f'...-k{n_shot}-c{n_class}-q{n_query}', of the constructor's arguments
RootNameNumbers(d) ==
    [k |-> cfg[d].n_shot, c |-> cfg[d].n_class, q |-> cfg[d].n_query]

\* C24: every episode identity stored under an episode-cache root named
\* '...-k<n_shot>-c<n_class>-q<n_query>' has the n_shot, n_class and n_query
\* of the name: len(classlist) is the c value and len(records) is c*(k+q),
\* also when the partition has fewer classes than the requested n_class.
C24_RootNameMatchesEpisodes ==
    \A d \in DatasetIds : \A i \in 0..(MaxEpisodes - 1) :
        LET path == episode_path_of(Obj(d), i)
            name == RootNameNumbers(d)
        IN (exists(fs, path) /\ fs[path].complete) =>
             LET e == load_entry(fs[path])
             IN /\ e.n_shot = name.k
                /\ e.n_class = name.c
                /\ e.n_query = name.q
                /\ Len(e.classlist) = name.c
                /\ Len(e.records) = name.c * (name.k + name.q)

\* the episode draws at least one record per class
DrawsRecords(e) == e.n_shot + e.n_query > 0

\* C25: a class without records cannot be sampled: no episode a __getitem__
\* holds or stores has such a class in its classlist, and the call that
\* selected it fails with IndexError.  The failed __getitem__(i) of a
\* deterministic dataset stores nothing: there is no episode file for i when
\* the error is raised, the step that raises it changes no file, and every
\* episode stored has n_class*(n_shot+n_query) records.
C25_FailedSamplingStoresNothing ==
    /\ [](\A p \in Workers :
            kind[p] = "getitem" =>
              /\ (episode[p] # None /\ DrawsRecords(episode[p])) =>
                   \A i \in 1..Len(episode[p].classlist) :
                      Obj(self[p]).files[episode[p].classlist[i]] # <<>>
              /\ (pc[p] = "error" /\ err[p] = "IndexError"
                    /\ Obj(self[p]).deterministic) =>
                   ~exists(fs, episode_path_of(Obj(self[p]), index[p])))
    /\ [](\A path \in DOMAIN fs :
            (fs[path].complete /\ fs[path].format = "json") =>
              LET e == load_entry(fs[path])
              IN Len(e.records) = e.n_class * (e.n_shot + e.n_query))
    /\ [][ (\E p \in Workers : err[p] # "IndexError" /\ err'[p] = "IndexError")
              => fs' = fs ]_vars

\* a deterministic __getitem__ has failed on a class without records, with
\* an episode of another dataset stored in the cache
C25_Witness ==
    \E p \in Workers :
        /\ kind[p] = "getitem"
        /\ pc[p] = "error"
        /\ err[p] = "IndexError"
        /\ Obj(self[p]).deterministic
        /\ \E cl \in DOMAIN Obj(self[p]).files : Obj(self[p]).files[cl] = <<>>
        /\ \E path \in DOMAIN fs : fs[path].complete /\ fs[path].format = "json"

====
